---- MODULE Spec2Model ----
(***************************************************************************)
(* Plugin-hook instrumentation of rsdoctor                                 *)
(* (packages/core/src/inner-plugins/utils/plugin.ts).                      *)
(*                                                                         *)
(* interceptPluginHook installs a register observer on a tapable hook; the *)
(* observer replaces tap.fn by a proxy (sync, async or promise) that times *)
(* the original callback and hands one record to sdk.reportPlugin through  *)
(* reportPluginData.  The model keeps one tapable hook, the taps           *)
(* registered on it, the invocations of those taps (in flight and          *)
(* finished), the clock read by Date.now() and the session's plugin data.  *)
(*                                                                         *)
(* JavaScript values are modelled by strings: "42" is a callback's return  *)
(* value, "boom" an Error thrown by a callback, "sinkErr" an Error thrown  *)
(* by sdk.reportPlugin; equality of the strings stands for identity of the *)
(* objects.                                                                *)
(***************************************************************************)
EXTENDS Integers, Sequences, FiniteSets, TLC

VARIABLES
  hook,       \* the tapable hook: its interceptors and its taps
  sink,       \* sdk's plugin data: hook name -> sequence of records
  invs,       \* the invocations of taps made so far, in call order
  now,        \* the value Date.now() returns
  calls,      \* history: every call of sdk.reportPlugin, in order
  lastCall,   \* history: the interceptPluginHook call made by the last step, if any
  sinkFaults  \* how many more times sdk.reportPlugin will throw

vars == <<hook, sink, invs, now, calls, lastCall, sinkFaults>>

----------------------------------------------------------------------------
(* Bounds of the model. *)

MaxTaps == 1
MaxInv == 2
MaxClock == 1
MaxIntercepts == 2
MaxFaults == 1

----------------------------------------------------------------------------
(* Values. *)

Null == "null"
Undefined == "undefined"

\* The names interceptPluginHook is called with, and the names of taps.
HookNames == {"compile", "emit"}
TapNames == {"my-plugin"}

\* tap.type as tapable sets it, and one tag the register observer does not know.
ConvTags == {"sync", "async", "promise"}
TapTypes == ConvTags \cup {"other"}

\* What the third argument of interceptPluginHook can be: a tapable hook, an
\* object without an intercept method, or undefined.
HookArgs == {"hook", "noIntercept", "undefined"}

\* The first argument of an invocation: absent (or without a compiler), an
\* object of the top-level compiler, an object of a child compiler.  Every
\* compiler the host passes has an isChild method.
Args == {"none", "top", "child"}

\* What a callback produces: a value or a thrown error / rejection reason.
\* The original callback of a promise tap returns a promise, as tapable
\* requires of it: it resolves with a value or rejects with an error.
Value(v) == [kind |-> "value", val |-> v]
Thrown(e) == [kind |-> "error", val |-> e]
OrigOutcomes == {Value("42"), Thrown("boom")}
SinkError == "sinkErr"

\* error.message and error.stack of the Error objects of the model.
Message(e) == IF e = "boom" THEN "boom" ELSE "reportPlugin failed"
Stack(e) == IF e = "boom" THEN "Error: boom at tap" ELSE "Error: reportPlugin failed at sdk"

----------------------------------------------------------------------------
(* reportPluginData and the sink. *)

\* new DevToolError(title, message, { controller, stack })
DevToolError(title, message, opts) ==
  [title |-> title, message |-> message, stack |-> opts.stack,
   noStack |-> opts.controller.noStack, noColor |-> opts.controller.noColor]

\* sdk.reportPlugin(data): the records of every key of data are appended to
\* the records the session holds for that key.
ReportPlugin(s, data) ==
  [k \in DOMAIN s |-> IF k \in DOMAIN data THEN s[k] \o data[k] ELSE s[k]]

\* PluginHookData with the operands of costs exchanged.
PluginHookDataCostsReversed(hookName, tapName, start, type, err, end) ==
  [tapName |-> tapName,
   costs |-> start - end,
   startAt |-> start,
   endAt |-> end,
   type |-> type,
   result |-> Null,
   error |-> IF err # Undefined
               THEN <<DevToolError(tapName \o " " \o hookName \o " Error", Message(err),
                         [controller |-> [noStack |-> FALSE, noColor |-> TRUE],
                          stack |-> Stack(err)])>>
               ELSE <<>>]

\* PluginHookData with the two parts of the title in the other order.
PluginHookDataTitleSwapped(hookName, tapName, start, type, err, end) ==
  [tapName |-> tapName,
   costs |-> end - start,
   startAt |-> start,
   endAt |-> end,
   type |-> type,
   result |-> Null,
   error |-> IF err # Undefined
               THEN <<DevToolError(hookName \o " " \o tapName \o " Error", Message(err),
                         [controller |-> [noStack |-> FALSE, noColor |-> TRUE],
                          stack |-> Stack(err)])>>
               ELSE <<>>]

\* The record reportPluginData builds.
PluginHookData(hookName, tapName, start, type, err, end) ==
  [tapName |-> tapName,
   costs |-> end - start,
   startAt |-> start,
   endAt |-> end,
   type |-> type,
   result |-> Null,
   error |-> IF err # Undefined
               THEN <<DevToolError(tapName \o " " \o hookName \o " Error", Message(err),
                         [controller |-> [noStack |-> FALSE, noColor |-> TRUE],
                          stack |-> Stack(err)])>>
               ELSE <<>>]

\* ReportPluginData submitting the record twice in one sequence.
ReportPluginDataTwice(m, who, hookName, tapName, start, type, res, err, ok) ==
  LET end == now
      rec == PluginHookData(hookName, tapName, start, type, err, end)
      data == hookName :> <<rec, rec>>
  IN [sink |-> IF ok THEN ReportPlugin(m.sink, data) ELSE m.sink,
      calls |-> Append(m.calls, [inv |-> who[1], layer |-> who[2], at |-> now,
                                 data |-> data, ok |-> ok]),
      threw |-> ~ok]

\* ReportPluginData putting its _res argument into the record.
ReportPluginDataKeepsResult(m, who, hookName, tapName, start, type, res, err, ok) ==
  LET end == now
      data == hookName :>
                <<[PluginHookData(hookName, tapName, start, type, err, end)
                     EXCEPT !.result = res]>>
  IN [sink |-> IF ok THEN ReportPlugin(m.sink, data) ELSE m.sink,
      calls |-> Append(m.calls, [inv |-> who[1], layer |-> who[2], at |-> now,
                                 data |-> data, ok |-> ok]),
      threw |-> ~ok]

\* ReportPluginData with the record filed under the tap's name, not the hook's.
ReportPluginDataKeyedByTap(m, who, hookName, tapName, start, type, res, err, ok) ==
  LET end == now
      data == tapName :> <<PluginHookData(hookName, tapName, start, type, err, end)>>
  IN [sink |-> IF ok THEN ReportPlugin(m.sink, data) ELSE m.sink,
      calls |-> Append(m.calls, [inv |-> who[1], layer |-> who[2], at |-> now,
                                 data |-> data, ok |-> ok]),
      threw |-> ~ok]

\* reportPluginData(sdk, hook, tapName, start, type, _res, err).  m holds the
\* sink and the history of reportPlugin calls; who = <<invocation, layer>> is
\* the caller and at the time of the call (history only); ok is whether sdk.reportPlugin returns (TRUE) or
\* throws SinkError (FALSE).
ReportPluginData(m, who, hookName, tapName, start, type, res, err, ok) ==
  LET end == now
      data == hookName :> <<PluginHookData(hookName, tapName, start, type, err, end)>>
  IN [sink |-> IF ok THEN ReportPlugin(m.sink, data) ELSE m.sink,
      calls |-> Append(m.calls, [inv |-> who[1], layer |-> who[2], at |-> now,
                                 data |-> data, ok |-> ok]),
      threw |-> ~ok]

----------------------------------------------------------------------------
(* The three proxies the register observer puts in place of tap.fn.        *)
(*                                                                         *)
(* Each operator is the part of a proxy that runs once the callee `o` has  *)
(* completed with outcome `in` (a returned / resolved value, or a thrown   *)
(* error / rejection reason); start (and, for the promise proxy, isChild)  *)
(* were taken when the proxy was called.  The result holds the sink, the   *)
(* history of reportPlugin calls and the proxy's own outcome.  f1 and f2   *)
(* say whether the first and the second call of sdk.reportPlugin made by   *)
(* the proxy return (TRUE) or throw (FALSE).                               *)

\* SyncProxy without its `return res`: the proxy returns undefined.
SyncProxyNoReturn(m, who, name, tap, start, in, f1, f2) ==
  IF in.kind = "value"
    THEN LET r1 == ReportPluginData(m, who, name, tap.name, start, tap.type, in.val, Undefined, f1)
         IN IF ~r1.threw
              THEN [sink |-> r1.sink, calls |-> r1.calls, out |-> Value(Undefined)]
              ELSE LET r2 == ReportPluginData(r1, who, name, tap.name, start, tap.type,
                                               Null, SinkError, f2)
                   IN [sink |-> r2.sink, calls |-> r2.calls, out |-> Thrown(SinkError)]
    ELSE LET r2 == ReportPluginData(m, who, name, tap.name, start, tap.type, Null, in.val, f2)
         IN [sink |-> r2.sink, calls |-> r2.calls,
             out |-> IF r2.threw THEN Thrown(SinkError) ELSE in]

\* tap.fn = function () { try { res = o.apply(); report; return res }
\*                        catch (error) { report(error); throw error } }
SyncProxy(m, who, name, tap, start, in, f1, f2) ==
  IF in.kind = "value"
    THEN LET r1 == ReportPluginData(m, who, name, tap.name, start, tap.type, in.val, Undefined, f1)
         IN IF ~r1.threw
              THEN [sink |-> r1.sink, calls |-> r1.calls, out |-> in]
              ELSE \* the throw of reportPluginData is caught by the same catch
                   LET r2 == ReportPluginData(r1, who, name, tap.name, start, tap.type,
                                               Null, SinkError, f2)
                   IN [sink |-> r2.sink, calls |-> r2.calls, out |-> Thrown(SinkError)]
    ELSE LET r2 == ReportPluginData(m, who, name, tap.name, start, tap.type, Null, in.val, f2)
         IN [sink |-> r2.sink, calls |-> r2.calls,
             out |-> IF r2.threw THEN Thrown(SinkError) ELSE in]

\* AsyncProxy without its `throw error`: the error is reported and swallowed.
AsyncProxySwallows(m, who, name, tap, start, in, f1, f2) ==
  IF in.kind = "value"
    THEN LET r1 == ReportPluginData(m, who, name, tap.name, start, tap.type, in.val, Undefined, f1)
         IN IF ~r1.threw
              THEN [sink |-> r1.sink, calls |-> r1.calls, out |-> in]
              ELSE LET r2 == ReportPluginData(r1, who, name, tap.name, start, tap.type,
                                               Null, SinkError, f2)
                   IN [sink |-> r2.sink, calls |-> r2.calls, out |-> Value(Undefined)]
    ELSE LET r2 == ReportPluginData(m, who, name, tap.name, start, tap.type, Null, in.val, f2)
         IN [sink |-> r2.sink, calls |-> r2.calls,
             out |-> IF r2.threw THEN Thrown(SinkError) ELSE Value(Undefined)]

\* tap.fn = async function () { try { res = await o.apply(); report; return res }
\*                              catch (error) { report(error); throw error } }
AsyncProxy(m, who, name, tap, start, in, f1, f2) ==
  IF in.kind = "value"
    THEN LET r1 == ReportPluginData(m, who, name, tap.name, start, tap.type, in.val, Undefined, f1)
         IN IF ~r1.threw
              THEN [sink |-> r1.sink, calls |-> r1.calls, out |-> in]
              ELSE LET r2 == ReportPluginData(r1, who, name, tap.name, start, tap.type,
                                               Null, SinkError, f2)
                   IN [sink |-> r2.sink, calls |-> r2.calls, out |-> Thrown(SinkError)]
    ELSE LET r2 == ReportPluginData(m, who, name, tap.name, start, tap.type, Null, in.val, f2)
         IN [sink |-> r2.sink, calls |-> r2.calls,
             out |-> IF r2.threw THEN Thrown(SinkError) ELSE in]

\* const isChild = arguments?.[0]?.compiler?.isChild();
IsChildOf(arg) ==
  CASE arg = "child" -> "true"
    [] arg = "top" -> "false"
    [] OTHER -> Undefined

\* JavaScript truthiness of what IsChildOf yields.
Truthy(x) == x = "true"

\* PromiseThen with the test of isChild negated.
PromiseThenNegated(m, who, name, tap, start, isChild, res, f1) ==
  IF ~Truthy(isChild)
    THEN [sink |-> m.sink, calls |-> m.calls, threw |-> FALSE]
    ELSE ReportPluginData(m, who, name, tap.name, start, tap.type, res, Undefined, f1)

\* .then((res) => { if (isChild) return res; report; return res })
\* The result's threw says whether the handler threw.
PromiseThen(m, who, name, tap, start, isChild, res, f1) ==
  IF Truthy(isChild)
    THEN [sink |-> m.sink, calls |-> m.calls, threw |-> FALSE]
    ELSE ReportPluginData(m, who, name, tap.name, start, tap.type, res, Undefined, f1)

\* A catch handler that rethrows without reporting.
PromiseCatchSilent(m, who, name, tap, start, error, f2) ==
  [sink |-> m.sink, calls |-> m.calls, threw |-> FALSE]

\* .catch((error) => { report(error); throw error })
\* The result's threw says whether reportPluginData threw before `throw error`.
PromiseCatch(m, who, name, tap, start, error, f2) ==
  ReportPluginData(m, who, name, tap.name, start, tap.type, Null, error, f2)

\* tap.fn = function () { start; isChild; return o.apply().then(..).catch(..) }
\* The rejection of the promise of then (the original's rejection, or what
\* the then handler threw) goes to the catch handler.
PromiseProxy(m, who, name, tap, start, isChild, in, f1, f2) ==
  IF in.kind = "value"
    THEN LET r1 == PromiseThen(m, who, name, tap, start, isChild, in.val, f1)
         IN IF ~r1.threw
              THEN [sink |-> r1.sink, calls |-> r1.calls, out |-> in]
              ELSE LET r2 == PromiseCatch(r1, who, name, tap, start, SinkError, f2)
                   IN [sink |-> r2.sink, calls |-> r2.calls, out |-> Thrown(SinkError)]
    ELSE LET r2 == PromiseCatch(m, who, name, tap, start, in.val, f2)
         IN [sink |-> r2.sink, calls |-> r2.calls,
             out |-> IF r2.threw THEN Thrown(SinkError) ELSE in]

\* Register building a new tap object for the proxy and naming it after the
\* hook.
RegisterRenames(tap, name) ==
  IF tap.type = "sync"
    THEN [name |-> name, type |-> tap.type,
          fn |-> Append(tap.fn, [proxy |-> "sync", name |-> name])]
  ELSE IF tap.type = "async"
    THEN [name |-> name, type |-> tap.type,
          fn |-> Append(tap.fn, [proxy |-> "async", name |-> name])]
  ELSE IF tap.type = "promise"
    THEN [name |-> name, type |-> tap.type,
          fn |-> Append(tap.fn, [proxy |-> "promise", name |-> name])]
  ELSE tap

\* Register whose last branch is an else: a tap of an unknown type gets the
\* sync proxy.
RegisterDefaultSync(tap, name) ==
  IF tap.type = "async"
    THEN [tap EXCEPT !.fn = Append(@, [proxy |-> "async", name |-> name])]
  ELSE IF tap.type = "promise"
    THEN [tap EXCEPT !.fn = Append(@, [proxy |-> "promise", name |-> name])]
  ELSE [tap EXCEPT !.fn = Append(@, [proxy |-> "sync", name |-> name])]

\* register(tap): tap.fn is replaced by the proxy of tap.type; a tap of any
\* other type is returned as it is.  tap.fn is the chain of proxies around
\* the original callback, innermost first; each proxy keeps the name its
\* interceptPluginHook was called with.
Register(tap, name) ==
  IF tap.type = "sync"
    THEN [tap EXCEPT !.fn = Append(@, [proxy |-> "sync", name |-> name])]
  ELSE IF tap.type = "async"
    THEN [tap EXCEPT !.fn = Append(@, [proxy |-> "async", name |-> name])]
  ELSE IF tap.type = "promise"
    THEN [tap EXCEPT !.fn = Append(@, [proxy |-> "promise", name |-> name])]
  ELSE tap

\* Proxies of every convention passing the outcome through without a report
\* when the first argument belongs to a child compiler.
RunProxySuppressAll(layer, m, who, tap, start, isChild, in, f1, f2) ==
  IF Truthy(IsChildOf(invs[who[1]].arg))
    THEN [sink |-> m.sink, calls |-> m.calls, out |-> in]
    ELSE CASE layer.proxy = "sync" -> SyncProxy(m, who, layer.name, tap, start, in, f1, f2)
           [] layer.proxy = "async" -> AsyncProxy(m, who, layer.name, tap, start, in, f1, f2)
           [] layer.proxy = "promise" ->
                PromiseProxy(m, who, layer.name, tap, start, isChild, in, f1, f2)

\* Proxies keeping start in one place per tap instead of one per invocation:
\* every invocation reports with the start of the latest call.
RunProxySharedStart(layer, m, who, tap, start, isChild, in, f1, f2) ==
  LET shared == invs[Len(invs)].start
  IN CASE layer.proxy = "sync" -> SyncProxy(m, who, layer.name, tap, shared, in, f1, f2)
       [] layer.proxy = "async" -> AsyncProxy(m, who, layer.name, tap, shared, in, f1, f2)
       [] layer.proxy = "promise" ->
            PromiseProxy(m, who, layer.name, tap, shared, isChild, in, f1, f2)

\* One proxy of the chain, run on the outcome of its callee.
RunProxy(layer, m, who, tap, start, isChild, in, f1, f2) ==
  CASE layer.proxy = "sync" -> SyncProxy(m, who, layer.name, tap, start, in, f1, f2)
    [] layer.proxy = "async" -> AsyncProxy(m, who, layer.name, tap, start, in, f1, f2)
    [] layer.proxy = "promise" ->
         PromiseProxy(m, who, layer.name, tap, start, isChild, in, f1, f2)

----------------------------------------------------------------------------
(* The tapable hook and interceptPluginHook. *)

\* hook?.intercept is there
HasIntercept(h) == h = "hook"

\* tapable's hook.intercept(interceptor): the interceptor is kept, and its
\* register is applied to every tap the hook already holds.
HookIntercept(hk, name) ==
  [observers |-> Append(hk.observers, name),
   taps |-> [t \in DOMAIN hk.taps |-> Register(hk.taps[t], name)]]

RECURSIVE RunRegisterInterceptors(_, _)
\* tapable's hook.tap*: the register of every interceptor, in the order of
\* their installation, is applied to the new tap.
RunRegisterInterceptors(observers, tap) ==
  IF observers = <<>>
    THEN tap
    ELSE RunRegisterInterceptors(Tail(observers), Register(tap, Head(observers)))

\* InterceptPluginHook testing `!hook` only: hook.intercept(...) of an object
\* without an intercept method throws a TypeError.
InterceptPluginHookNoGuard(hk, name, h) ==
  IF h = "undefined"
    THEN [hook |-> hk, threw |-> FALSE]
    ELSE IF ~HasIntercept(h)
      THEN [hook |-> hk, threw |-> TRUE]
      ELSE [hook |-> HookIntercept(hk, name), threw |-> FALSE]

\* interceptPluginHook(sdk, name, hook) called with h as its hook, on the
\* hook state hk: the hook state afterwards and whether the call threw.
InterceptPluginHook(hk, name, h) ==
  IF ~HasIntercept(h)
    THEN [hook |-> hk, threw |-> FALSE]
    ELSE [hook |-> HookIntercept(hk, name), threw |-> FALSE]

----------------------------------------------------------------------------
(* Invocations. *)

\* An invocation that runs to completion before anything else can run: a
\* sync tap from its call to its return, and the innermost async proxy when
\* the original callback threw before the await.
InSync(v) ==
  /\ v.pc # "done"
  /\ \/ v.type = "sync"
     \/ v.syncThrow /\ Len(v.trail) = 1

Busy == \E i \in DOMAIN invs : InSync(invs[i])
MayRun(i) == \A j \in DOMAIN invs : InSync(invs[j]) => j = i

\* How many of the reportPlugin calls after the first n threw.
Failed(cs, n) == Cardinality({k \in (n + 1)..Len(cs) : ~cs[k].ok})

\* NewInvocation of an async proxy without its await, and of a promise proxy
\* that reports beside the promise instead of in its handlers: the proxy goes
\* on with the pending result while the original callback is still running.
NewInvocationNoWait(t, arg, th) ==
  LET tap == hook.taps[t]
      eager == tap.fn # <<>> /\ tap.type \in {"async", "promise"}
  IN [tap |-> t, type |-> tap.type, fn |-> tap.fn, arg |-> arg,
      isChild |-> IsChildOf(arg), childNow |-> IsChildOf(arg),
      start |-> now, syncThrow |-> th,
      origDone |-> th,
      trail |-> IF th THEN <<Thrown("boom")>>
                ELSE IF eager THEN <<Value(Undefined)>> ELSE <<>>,
      pc |-> IF th \/ eager THEN (IF tap.fn = <<>> THEN "done" ELSE "settled")
             ELSE "running"]

\* The state of an invocation at the call of tap.fn: every proxy of the chain
\* has taken start (and the promise proxy isChild), and the original callback
\* is running; or, with th, the original of an async tap has thrown already.
\* The proxies of a chain call one another synchronously, so they read the
\* same Date.now() and the same arguments.  trail holds the outcome of the
\* original callback followed by the outcomes of the proxies that have
\* completed, innermost first; origDone (history) says whether the original
\* callback has completed; childNow is what compiler.isChild() of the first
\* argument would return if it were called now.
NewInvocation(t, arg, th) ==
  LET tap == hook.taps[t]
  IN [tap |-> t, type |-> tap.type, fn |-> tap.fn, arg |-> arg,
      isChild |-> IsChildOf(arg), childNow |-> IsChildOf(arg),
      start |-> now, syncThrow |-> th,
      origDone |-> th,
      trail |-> IF th THEN <<Thrown("boom")>> ELSE <<>>,
      pc |-> IF ~th THEN "running" ELSE IF tap.fn = <<>> THEN "done" ELSE "settled"]

----------------------------------------------------------------------------
(* Actions. *)

\* lastCall after a step that is no call of interceptPluginHook.
NoCall == [hook |-> "", threw |-> FALSE]

Init ==
  /\ hook = [observers |-> <<>>, taps |-> <<>>]
  /\ sink = [n \in HookNames |-> <<>>]
  /\ invs = <<>>
  /\ now = 0
  /\ calls = <<>>
  /\ lastCall = NoCall
  /\ sinkFaults = 0

\* The plugin calls interceptPluginHook(sdk, name, h), while no tap of the
\* hook is running.
Intercept ==
  \E name \in HookNames, h \in HookArgs :
    /\ \A i \in DOMAIN invs : invs[i].pc = "done"
    /\ HasIntercept(h) => Len(hook.observers) < MaxIntercepts
    /\ LET r == InterceptPluginHook(hook, name, h)
       IN /\ hook' = r.hook
          /\ lastCall' = [hook |-> h, threw |-> r.threw]
    /\ UNCHANGED <<sink, invs, now, calls, sinkFaults>>

\* A plugin registers a tap on the hook (hook.tap, tapAsync, tapPromise).
Tap ==
  \E name \in TapNames, type \in TapTypes :
    /\ ~Busy
    /\ Len(hook.taps) < MaxTaps
    /\ hook' = [hook EXCEPT !.taps =
                  Append(@, RunRegisterInterceptors(hook.observers,
                                [name |-> name, type |-> type, fn |-> <<>>]))]
    /\ lastCall' = NoCall
    /\ UNCHANGED <<sink, invs, now, calls, sinkFaults>>

\* The host calls tap.fn of a registered tap.
Call ==
  \E t \in DOMAIN hook.taps, arg \in Args, th \in BOOLEAN :
    /\ ~Busy
    /\ Len(invs) < MaxInv
    /\ th => hook.taps[t].type = "async"
    /\ invs' = Append(invs, NewInvocation(t, arg, th))
    /\ lastCall' = NoCall
    /\ UNCHANGED <<hook, sink, now, calls, sinkFaults>>

\* The original callback of an invocation returns, throws, resolves or rejects.
OrigComplete ==
  \E i \in DOMAIN invs, o \in OrigOutcomes :
    /\ MayRun(i)
    /\ invs[i].pc = "running"
    /\ invs' = [invs EXCEPT ![i].trail = <<o>>,
                            ![i].origDone = TRUE,
                            ![i].pc = IF invs[i].fn = <<>> THEN "done" ELSE "settled"]
    /\ lastCall' = NoCall
    /\ UNCHANGED <<hook, sink, now, calls, sinkFaults>>

\* The next proxy of the chain runs on the outcome of its callee: the rest
\* of the try block or the catch block of the sync and async proxies, the
\* then and catch handlers of the promise proxy.
ProxyComplete ==
  \E i \in DOMAIN invs, f1 \in BOOLEAN, f2 \in BOOLEAN :
    /\ MayRun(i)
    /\ invs[i].pc = "settled"
    /\ LET v == invs[i]
           l == Len(v.trail)
           r == RunProxy(v.fn[l], [sink |-> sink, calls |-> calls], <<i, l>>,
                         hook.taps[v.tap], v.start, v.isChild, v.trail[l], f1, f2)
       IN /\ Failed(r.calls, Len(calls)) <= sinkFaults
          /\ sinkFaults' = sinkFaults - Failed(r.calls, Len(calls))
          /\ sink' = r.sink
          /\ calls' = r.calls
          /\ invs' = [invs EXCEPT ![i].trail = Append(@, r.out),
                                  ![i].pc = IF l = Len(v.fn) THEN "done" ELSE "settled"]
    /\ lastCall' = NoCall
    /\ UNCHANGED <<hook, now>>

\* While the original callback of an instrumented promise tap is pending,
\* the compiler of its first argument starts or stops answering isChild()
\* with true.  Only the promise proxy reads the predicate.
IsChildChanges ==
  \E i \in DOMAIN invs, c \in {"true", "false"} :
    /\ ~Busy
    /\ invs[i].type = "promise" /\ invs[i].fn # <<>>
    /\ invs[i].pc = "running"
    /\ invs[i].arg # "none"
    /\ invs[i].childNow = invs[i].isChild
    /\ c # invs[i].childNow
    /\ invs' = [invs EXCEPT ![i].childNow = c]
    /\ lastCall' = NoCall
    /\ UNCHANGED <<hook, sink, now, calls, sinkFaults>>

\* Time passes.
Tick ==
  /\ now < MaxClock
  /\ now' = now + 1
  /\ lastCall' = NoCall
  /\ UNCHANGED <<hook, sink, invs, calls, sinkFaults>>

Next ==
  Intercept \/ Tap \/ Call \/ OrigComplete \/ ProxyComplete \/ IsChildChanges \/ Tick

\* The session's sink keeps its contract: sdk.reportPlugin never throws.
Spec == Init /\ [][Next]_vars

\* The same program with a sink whose reportPlugin throws up to MaxFaults times.
FaultInit ==
  /\ hook = [observers |-> <<>>, taps |-> <<>>]
  /\ sink = [n \in HookNames |-> <<>>]
  /\ invs = <<>>
  /\ now = 0
  /\ calls = <<>>
  /\ lastCall = NoCall
  /\ sinkFaults = MaxFaults

FaultSpec == FaultInit /\ [][Next]_vars

----------------------------------------------------------------------------
(* Vocabulary of the properties.                                           *)
(*                                                                         *)
(* A logical invocation of a proxy is a pair (i, l): invocation i of a tap *)
(* and the l-th proxy of the chain tap.fn held when it was called.         *)

Proxies == UNION {{<<i, l>> : l \in DOMAIN invs[i].fn} : i \in DOMAIN invs}

\* The convention of proxy (i, l) and the name interceptPluginHook gave it.
ProxyOf(p) == invs[p[1]].fn[p[2]].proxy
NameOf(p) == invs[p[1]].fn[p[2]].name
TapOf(p) == hook.taps[invs[p[1]].tap]

\* The callee of proxy p has completed (returned, thrown, resolved, rejected).
CalleeDone(p) == Len(invs[p[1]].trail) >= p[2]
\* Proxy p has completed: its caller can observe its outcome.
ProxyDone(p) == Len(invs[p[1]].trail) > p[2]
\* The outcome of p's callee, and p's own.
CalleeOutcome(p) == invs[p[1]].trail[p[2]]
ProxyOutcome(p) == invs[p[1]].trail[p[2] + 1]

\* The calls of sdk.reportPlugin made by proxy p, as indices of calls.
Submissions(p) == {k \in DOMAIN calls : calls[k].inv = p[1] /\ calls[k].layer = p[2]}
\* The key and the record of the k-th call of sdk.reportPlugin.
KeyOf(k) == CHOOSE n \in DOMAIN calls[k].data : TRUE
RecordOf(k) == calls[k].data[KeyOf(k)][1]

\* Proxy p is a promise proxy invoked with a first argument of a child compiler.
ChildPromise(p) == ProxyOf(p) = "promise" /\ invs[p[1]].arg = "child"

----------------------------------------------------------------------------
(* C1: for every invocation of a proxy of any convention, at most one      *)
(* record is submitted in any reachable state, and exactly one once the    *)
(* invocation has completed; zero for a promise proxy invoked in a child   *)
(* context.                                                                *)
C1_OneSubmissionPerInvocation ==
  \A p \in Proxies :
    /\ Cardinality(Submissions(p)) <= 1
    /\ ProxyDone(p) =>
         Cardinality(Submissions(p)) = IF ChildPromise(p) THEN 0 ELSE 1

(* C2: a promise proxy invoked with a first argument whose child-context   *)
(* predicate is true submits no record, whether the original promise       *)
(* resolves or rejects, and settles as the original promise did.           *)
C2_ChildContextSuppressed ==
  \A p \in Proxies :
    (ChildPromise(p) /\ ProxyDone(p)) =>
      /\ Submissions(p) = {}
      /\ ProxyOutcome(p) = CalleeOutcome(p)

(* C3: after interceptPluginHook was called twice with the same name on    *)
(* the same hook, a finished invocation of a tap of that hook has produced *)
(* exactly one record (none when suppressed), not two.                     *)
C3_InterceptIdempotent ==
  \A i \in DOMAIN invs :
    LET v == invs[i]
    IN (/\ v.pc = "done"
        /\ Len(v.fn) = 2
        /\ v.fn[1].name = v.fn[2].name
        /\ ~(v.type = "promise" /\ v.arg = "child")) =>
         Cardinality({k \in DOMAIN calls : calls[k].inv = i}) = 1

(* C4: whether or not sdk.reportPlugin throws, a proxy completes with the  *)
(* outcome of the original callback: the same value, or the same error.    *)
C4_TelemetryIsolated ==
  \A p \in Proxies :
    ProxyDone(p) => ProxyOutcome(p) = CalleeOutcome(p)

(* C5: when the original callback of a sync tap returns normally, the      *)
(* proxy returns the same value and exactly one record is submitted for    *)
(* the invocation, with result = null and an empty error list.             *)
C5_SyncSuccess ==
  \A p \in Proxies :
    (ProxyOf(p) = "sync" /\ ProxyDone(p) /\ CalleeOutcome(p).kind = "value") =>
      /\ ProxyOutcome(p) = CalleeOutcome(p)
      /\ Cardinality(Submissions(p)) = 1
      /\ \A k \in Submissions(p) :
           /\ calls[k].ok
           /\ RecordOf(k).result = Null
           /\ RecordOf(k).error = <<>>

\* A sync tap "my-plugin" on "compile" ran for one tick and returned 42.
C5_Witness ==
  \E p \in Proxies :
    /\ ProxyOf(p) = "sync" /\ ProxyDone(p) /\ NameOf(p) = "compile"
    /\ CalleeOutcome(p) = Value("42")
    /\ \E k \in Submissions(p) :
         /\ RecordOf(k).tapName = "my-plugin" /\ RecordOf(k).costs = 1
         /\ \E j \in DOMAIN sink["compile"] : sink["compile"][j] = RecordOf(k)

(* C6: when the original callback of a sync tap throws, the proxy throws   *)
(* the same error and exactly one record is submitted for the invocation,  *)
(* whose error list is one descriptor titled "<tapName> <hookName> Error". *)
C6_SyncThrow ==
  \A p \in Proxies :
    (ProxyOf(p) = "sync" /\ ProxyDone(p) /\ CalleeOutcome(p).kind = "error") =>
      /\ ProxyOutcome(p) = CalleeOutcome(p)
      /\ Cardinality(Submissions(p)) = 1
      /\ \A k \in Submissions(p) :
           /\ calls[k].ok
           /\ Len(RecordOf(k).error) = 1
           /\ RecordOf(k).error[1].title = TapOf(p).name \o " " \o NameOf(p) \o " Error"

\* A sync tap "my-plugin" on "compile" threw Error("boom").
C6_Witness ==
  \E p \in Proxies :
    /\ ProxyOf(p) = "sync" /\ ProxyDone(p)
    /\ ProxyOutcome(p) = Thrown("boom")
    /\ \E k \in Submissions(p) : RecordOf(k).error[1].title = "my-plugin compile Error"

(* C7: a promise proxy invoked with a first argument whose child-context   *)
(* predicate is false or absent submits nothing before the original        *)
(* promise has settled and exactly one record once it has; the record's    *)
(* error list is non-empty iff the promise rejected; the proxy's promise   *)
(* settles as the original did.                                            *)
C7_PromiseTopLevel ==
  \A p \in Proxies :
    (ProxyOf(p) = "promise" /\ invs[p[1]].arg \in {"top", "none"}) =>
      /\ ~CalleeDone(p) => Submissions(p) = {}
      /\ Cardinality(Submissions(p)) <= 1
      /\ ProxyDone(p) =>
           /\ ProxyOutcome(p) = CalleeOutcome(p)
           /\ Cardinality(Submissions(p)) = 1
           /\ \A k \in Submissions(p) :
                /\ calls[k].ok
                /\ (RecordOf(k).error # <<>>) <=> (CalleeOutcome(p).kind = "error")

\* One promise invocation without a first argument resolved, another with a
\* top-level first argument rejected.
C7_Witness ==
  \E p \in Proxies, q \in Proxies :
    /\ ProxyOf(p) = "promise" /\ invs[p[1]].arg = "none" /\ ProxyDone(p)
    /\ ProxyOutcome(p) = Value("42")
    /\ ProxyOf(q) = "promise" /\ invs[q[1]].arg = "top" /\ ProxyDone(q)
    /\ ProxyOutcome(q) = Thrown("boom")

(* C8: an async proxy submits nothing before the awaited original callback *)
(* has completed; if the original throws or rejects, exactly one record    *)
(* with one descriptor (title "<tapName> <hookName> Error", the message of *)
(* the original error) is submitted and the proxy rejects with the same    *)
(* error; if it succeeds, exactly one record without error is submitted    *)
(* and the proxy resolves with the original value.                         *)
C8_AsyncOutcome ==
  \A p \in Proxies :
    ProxyOf(p) = "async" =>
      /\ ~CalleeDone(p) => Submissions(p) = {}
      /\ ProxyDone(p) =>
           /\ ProxyOutcome(p) = CalleeOutcome(p)
           /\ Cardinality(Submissions(p)) = 1
           /\ \A k \in Submissions(p) :
                /\ calls[k].ok
                /\ IF CalleeOutcome(p).kind = "error"
                     THEN /\ Len(RecordOf(k).error) = 1
                          /\ RecordOf(k).error[1].title =
                               TapOf(p).name \o " " \o NameOf(p) \o " Error"
                          /\ RecordOf(k).error[1].message = Message(CalleeOutcome(p).val)
                     ELSE RecordOf(k).error = <<>>

\* An async tap "my-plugin" on "compile" threw Error("boom"), and another
\* invocation of an async tap resolved with 42.
C8_Witness ==
  \E p \in Proxies, q \in Proxies :
    /\ ProxyOf(p) = "async" /\ ProxyDone(p) /\ ProxyOutcome(p) = Thrown("boom")
    /\ \E k \in Submissions(p) :
         /\ RecordOf(k).error[1].title = "my-plugin compile Error"
         /\ RecordOf(k).error[1].message = "boom"
    /\ ProxyOf(q) = "async" /\ ProxyDone(q) /\ ProxyOutcome(q) = Value("42")

\* The records submitted under hook name n, in the order of submission.
SubmittedTo(n) ==
  LET cs == SelectSeq(calls, LAMBDA c : n \in DOMAIN c.data)
  IN [j \in 1..Len(cs) |-> cs[j].data[n][1]]

AllSettled == \A i \in DOMAIN invs : invs[i].pc = "done"

(* C9: whatever the interleaving of the in-flight invocations, the sink's  *)
(* sequence of a hook is the sequence of the records submitted for it, and *)
(* once all invocations have settled it holds exactly one record of every  *)
(* invocation that is not a child-context promise invocation.              *)
C9_NoSubmissionLost ==
  /\ \A n \in HookNames : sink[n] = SubmittedTo(n)
  /\ AllSettled =>
       \A p \in Proxies :
         ~ChildPromise(p) =>
           Cardinality({k \in Submissions(p) : KeyOf(k) = NameOf(p) /\ calls[k].ok}) = 1

\* Two async or promise invocations on one hook were in flight together and
\* settled in the order opposite to their calls.
C9_Witness ==
  /\ AllSettled
  /\ \E p \in Proxies, q \in Proxies :
       /\ p[1] < q[1]
       /\ ProxyOf(p) \in {"async", "promise"} /\ ProxyOf(q) \in {"async", "promise"}
       /\ NameOf(p) = NameOf(q)
       /\ \E k \in Submissions(p), j \in Submissions(q) : j < k
       /\ Len(sink[NameOf(p)]) = 2

(* C10: a call of interceptPluginHook whose hook is absent or has no       *)
(* intercept method does not throw and leaves the hook (its observers and  *)
(* its taps) and the sink as they were.                                    *)
C10_NoInterceptNoOp ==
  [][lastCall'.hook \in {"noIntercept", "undefined"} =>
       /\ ~lastCall'.threw
       /\ hook' = hook
       /\ sink' = sink]_vars

\* interceptPluginHook has just been called with an object without an
\* intercept method, on a session whose hook holds an observer and a tap.
C10_Witness ==
  /\ lastCall.hook = "noIntercept"
  /\ hook.observers # <<>>
  /\ hook.taps # <<>>

(* C11: a tap whose type is none of sync, async, promise keeps its         *)
(* original callback when it is registered on an intercepted hook, and its *)
(* invocations never submit a record.                                      *)
C11_UnknownTypeUntouched ==
  /\ \A t \in DOMAIN hook.taps :
       hook.taps[t].type \notin ConvTags => hook.taps[t].fn = <<>>
  /\ \A i \in DOMAIN invs :
       invs[i].type \notin ConvTags =>
         /\ invs[i].fn = <<>>
         /\ \A k \in DOMAIN calls : calls[k].inv # i

\* A tap of an unknown type, registered on an intercepted hook, was called
\* and has completed.
C11_Witness ==
  /\ hook.observers # <<>>
  /\ \E i \in DOMAIN invs :
       /\ invs[i].type = "other" /\ invs[i].pc = "done"
       /\ hook.taps[invs[i].tap].fn = <<>>

(* C12: no forced reporting: in every reachable state a record of an       *)
(* invocation of an async or promise tap has been submitted only if the    *)
(* original callback of that invocation has completed; while it has not    *)
(* settled, nothing is submitted for it.                                   *)
C12_NoForcedReporting ==
  \A i \in DOMAIN invs :
    (invs[i].type \in {"async", "promise"} /\ ~invs[i].origDone) =>
      \A k \in DOMAIN calls : calls[k].inv # i

\* An instrumented promise invocation is still pending after the clock has
\* advanced and another invocation has been reported.
C12_Witness ==
  \E i \in DOMAIN invs :
    /\ invs[i].type = "promise" /\ invs[i].fn # <<>>
    /\ ~invs[i].origDone /\ invs[i].start < now
    /\ calls # <<>>

(* C13: the clock never goes back (Tick), and every record submitted, of   *)
(* any convention, has startAt <= endAt, costs = endAt - startAt >= 0,     *)
(* where startAt is the time the proxy read before it called the original  *)
(* callback and endAt the time of the report.                              *)
C13_TimesOrdered ==
  \A k \in DOMAIN calls :
    LET r == RecordOf(k)
    IN /\ r.startAt = invs[calls[k].inv].start
       /\ r.endAt = calls[k].at
       /\ r.startAt <= r.endAt
       /\ r.costs = r.endAt - r.startAt
       /\ r.costs >= 0

\* An async tap took one tick: its record has costs 1.
C13_Witness ==
  \E k \in DOMAIN calls :
    /\ RecordOf(k).type = "async"
    /\ RecordOf(k).startAt = 0 /\ RecordOf(k).endAt = 1 /\ RecordOf(k).costs = 1

(* C14: every record reportPluginData submits has result = null whatever   *)
(* the original callback produced; its error list is empty when the callee *)
(* succeeded (no error is passed) and otherwise holds exactly one          *)
(* descriptor, with title "<tapName> <hookName> Error" and the message and *)
(* the stack of the error the callee threw.                                *)
C14_RecordShape ==
  \A k \in DOMAIN calls :
    LET r == RecordOf(k)
        p == <<calls[k].inv, calls[k].layer>>
        o == CalleeOutcome(p)
    IN /\ r.result = Null
       /\ IF o.kind = "value"
            THEN r.error = <<>>
            ELSE /\ Len(r.error) = 1
                 /\ r.error[1].title = TapOf(p).name \o " " \o NameOf(p) \o " Error"
                 /\ r.error[1].message = Message(o.val)
                 /\ r.error[1].stack = Stack(o.val)

\* Both kinds of record are in the sink: one of a callback that returned 42
\* and one of a callback that threw Error("boom").
C14_Witness ==
  \E k \in DOMAIN calls, j \in DOMAIN calls :
    /\ CalleeOutcome(<<calls[k].inv, calls[k].layer>>) = Value("42")
    /\ RecordOf(k).result = "null"
    /\ CalleeOutcome(<<calls[j].inv, calls[j].layer>>) = Thrown("boom")
    /\ RecordOf(j).error[1].stack = "Error: boom at tap"

\* Every record submitted carries the name and the type of the tap whose
\* proxy submitted it and is filed under the name given to interceptPluginHook.
RecordsCarryTap ==
  \A k \in DOMAIN calls :
    LET p == <<calls[k].inv, calls[k].layer>>
    IN /\ RecordOf(k).tapName = TapOf(p).name
       /\ RecordOf(k).type = TapOf(p).type
       /\ DOMAIN calls[k].data = {NameOf(p)}

(* C15: instrumenting a tap changes only its callback: register returns    *)
(* the tap with the name and the type it had, in every step that passes    *)
(* taps to register; and each record a proxy produces carries the tap's    *)
(* name and type and is keyed by the name given to interceptPluginHook.    *)
C15_OnlyCallbackReplaced ==
  [][/\ \A t \in DOMAIN hook.taps :
          /\ hook'.taps[t].name = hook.taps[t].name
          /\ hook'.taps[t].type = hook.taps[t].type
     /\ \A t \in DOMAIN hook.taps, n \in HookNames :
          /\ Register(hook.taps[t], n).name = hook.taps[t].name
          /\ Register(hook.taps[t], n).type = hook.taps[t].type
     /\ RecordsCarryTap']_vars

\* A promise tap has been wrapped and called, and its record is in the sink
\* under the hook's name.
C15_Witness ==
  /\ lastCall = NoCall
  /\ \E k \in DOMAIN calls :
       /\ RecordOf(k).tapName = "my-plugin"
       /\ RecordOf(k).type = "promise"
       /\ KeyOf(k) = "emit"
       /\ sink["emit"] # <<>>

\* The record of the k-th call of sdk.reportPlugin is in the sink.
InSink(k) == \E j \in DOMAIN sink[KeyOf(k)] : sink[KeyOf(k)][j] = RecordOf(k)

(* C16: for every convention, a proxy submits only after its original      *)
(* callback has completed, and at the moment the caller of the proxy       *)
(* observes the outcome the record of the invocation is in the sink,       *)
(* unless the invocation is a suppressed one.                              *)
C16_ReportBeforeReturn ==
  \A p \in Proxies :
    /\ Submissions(p) # {} => CalleeDone(p)
    /\ ProxyDone(p) =>
         /\ ~ChildPromise(p) => Submissions(p) # {}
         /\ \A k \in Submissions(p) : calls[k].ok /\ InSink(k)

\* A top-level promise proxy has rejected as the original promise did, and
\* the record with the error descriptor is in the sink.
C16_Witness ==
  \E p \in Proxies :
    /\ ProxyOf(p) = "promise" /\ ProxyDone(p) /\ ~ChildPromise(p)
    /\ ProxyOutcome(p) = Thrown("boom")
    /\ \E k \in Submissions(p) : InSink(k) /\ Len(RecordOf(k).error) = 1

(* C17: each call of reportPluginData submits a mapping with exactly one   *)
(* key, the hook name given, holding a sequence of exactly one record;     *)
(* with the appending sink the step of the call leaves the sequences of    *)
(* all other hooks as they were and appends that record at the end of the  *)
(* hook's sequence, and a step without a call leaves the sink unchanged.   *)
C17_OneKeyOneRecordAppended ==
  [][/\ Len(calls') \in {Len(calls), Len(calls) + 1}
     /\ SubSeq(calls', 1, Len(calls)) = calls
     /\ Len(calls') = Len(calls) => sink' = sink
     /\ Len(calls') = Len(calls) + 1 =>
          LET c == calls'[Len(calls')]
              n == invs'[c.inv].fn[c.layer].name
          IN /\ DOMAIN c.data = {n}
             /\ Len(c.data[n]) = 1
             /\ sink'[n] = Append(sink[n], c.data[n][1])
             /\ \A o \in HookNames \ {n} : sink'[o] = sink[o]]_vars

\* Three records were submitted under two hook names; the two of "emit"
\* stand in the sink in the order of their submission.
C17_Witness ==
  /\ Len(sink["compile"]) = 1
  /\ Len(sink["emit"]) = 2
  /\ \E j \in DOMAIN calls, k \in DOMAIN calls :
       /\ j < k
       /\ KeyOf(j) = "emit" /\ KeyOf(k) = "emit"
       /\ RecordOf(j) # RecordOf(k)
       /\ sink["emit"] = <<RecordOf(j), RecordOf(k)>>

(* C18: child-context suppression is for the promise convention only: a    *)
(* sync or async proxy invoked with a first argument whose child-context   *)
(* predicate is true submits nothing before its original callback has      *)
(* completed and exactly one record once the proxy has completed.          *)
C18_SuppressionPromiseOnly ==
  \A p \in Proxies :
    (ProxyOf(p) \in {"sync", "async"} /\ Truthy(IsChildOf(invs[p[1]].arg))) =>
      /\ Cardinality(Submissions(p)) <= 1
      /\ ProxyDone(p) => \E k \in Submissions(p) :
                           /\ Submissions(p) = {k}
                           /\ RecordOf(k).type = ProxyOf(p)
                           /\ InSink(k)

\* An async tap called with the compilation of a child compiler has
\* completed, and its one record is in the sink.
C18_Witness ==
  \E p \in Proxies :
    /\ ProxyOf(p) = "async" /\ invs[p[1]].arg = "child" /\ ProxyDone(p)
    /\ ProxyOutcome(p) = Value("42")
    /\ Cardinality(Submissions(p)) = 1
    /\ \A k \in Submissions(p) : RecordOf(k).type = "async" /\ InSink(k)

\* The predicate of the first argument of invocation i changed between the
\* call and the settlement.
ChangedLate(i) == invs[i].childNow # invs[i].isChild

\* What the then and catch handlers decide from: the value of isChild taken
\* at the call and the way the original promise settled; the value the
\* predicate has at settlement plays no part.
DecisionIgnoresLateChange ==
  \A p \in Proxies :
    (ProxyOf(p) = "promise" /\ ProxyDone(p)) =>
      (Submissions(p) = {} <=>
         (Truthy(invs[p[1]].isChild) /\ CalleeOutcome(p).kind = "value"))

(* C19: for a promise proxy the child-context predicate is evaluated once, *)
(* at the call; whether a record is submitted at settlement depends on the *)
(* value captured then and on nothing else: a completed promise proxy has  *)
(* submitted no record exactly when the captured value is true, whatever   *)
(* the predicate has become since and however the promise settled.         *)
C19_DecisionFromCapturedValueOnly ==
  \A p \in Proxies :
    (ProxyOf(p) = "promise" /\ ProxyDone(p)) =>
      (Submissions(p) = {} <=> Truthy(invs[p[1]].isChild))

\* A promise proxy was called with a top-level compilation whose compiler
\* became a child before the promise resolved, and has reported all the same.
C19_Witness ==
  \E p \in Proxies :
    /\ ProxyOf(p) = "promise" /\ ProxyDone(p)
    /\ invs[p[1]].isChild = "false" /\ invs[p[1]].childNow = "true"
    /\ CalleeOutcome(p).kind = "value"
    /\ Cardinality(Submissions(p)) = 1

\* The sequence s of records is in non-decreasing order of endAt.
EndAtOrdered(s) == \A a \in DOMAIN s, b \in DOMAIN s : a < b => s[a].endAt <= s[b].endAt

(* C20: invocations of one async or promise proxy that are in flight at    *)
(* once share no timing state: every record submitted has the startAt      *)
(* that its own invocation sampled at its call, in whatever order the      *)
(* invocations settle, and the records of a hook stand in the sink in      *)
(* non-decreasing order of endAt, the order of settlement.                 *)
C20_NoSharedTimingState ==
  /\ \A p \in Proxies :
       ProxyOf(p) \in {"async", "promise"} =>
         \A k \in Submissions(p) :
           /\ RecordOf(k).startAt = invs[p[1]].start
           /\ RecordOf(k).endAt = calls[k].at
           /\ \A j \in Submissions(p) : j = k
  /\ \A n \in HookNames : EndAtOrdered(sink[n])

\* Two invocations of one async or promise proxy overlapped and settled in
\* the reverse order of their calls: the record of the later call (startAt 1)
\* stands in the sink before the record of the earlier one (startAt 0).
C20_Witness ==
  \E n \in HookNames :
    /\ Len(sink[n]) = 2
    /\ sink[n][1].type \in {"async", "promise"}
    /\ sink[n][1].startAt = 1 /\ sink[n][2].startAt = 0
    /\ invs[1].start = 0 /\ invs[2].start = 1

====
